---- MODULE Spec2Model ----
(***************************************************************************)
(* Model of app.py: the Streamlit page that saves an uploaded PDF to a     *)
(* temporary file, calls camelot.read_pdf on it, removes the file, writes  *)
(* every extracted table to a sheet of an in-memory workbook and offers    *)
(* the workbook for download.                                              *)
(*                                                                         *)
(* Strings of the program that the program itself takes apart or builds    *)
(* (file names, sheet names) are sequences of characters or tokens; the    *)
(* bytes of a PDF are an opaque blob, named by a string.                   *)
(***************************************************************************)
EXTENDS Integers, Sequences, FiniteSets, TLC

VARIABLES
    fs,        \* the file system: path -> content, or Absent
    pc,        \* per session: the place the script run has reached
    req,       \* per session: uploaded_file, selected_flavor, selected_pages
    tables,    \* per session: the local `tables` of extract_tables_to_excel
    err,       \* per session: the exception `e` raised inside the try block
    ret,       \* per session: the value extract_tables_to_excel returned
    outcome,   \* per session: which return statement was taken
    msgs,      \* per session: the status messages shown in this run
    download,  \* per session: the download button shown in this run
    seen,      \* per session: the file content camelot.read_pdf was given
    fsBefore   \* per session: the file system when the call started

vars == <<fs, pc, req, tables, err, ret, outcome, msgs, download, seen, fsBefore>>

-----------------------------------------------------------------------------
(* Bounds *)

\* Longest table list handed to the sheet loop in SpecSheets.
MaxTables == 11
\* Most parts (a letter, a dot, ".pdf") an uploaded file name is built from.
MaxNameParts == 3

-----------------------------------------------------------------------------
(* Values *)

temp_pdf_path == "temp_uploaded_file.pdf"
OtherPath == "requirements.txt"
Paths == {temp_pdf_path, OtherPath}

Absent == "<absent>"
\* What open(..., "wb") leaves when the write after it fails: a truncated file.
Truncated == "<truncated>"

flavor_options == {"stream", "lattice"}
PageSelectors == {"all", "1"}

\* The blobs a user uploads.
PdfCorrupt == "pdf_corrupt"
PdfNoTables == "pdf_no_tables"
PdfThree == "pdf_three_tables"
PdfUnruled == "pdf_unruled_table"
PdfBlobs == {PdfCorrupt, PdfNoTables, PdfThree, PdfUnruled}

NoErr == "<none>"
OSError == "OSError: cannot write file"
FileNotFound == "FileNotFoundError: temp_uploaded_file.pdf"
PdfReadError == "PdfReadError: EOF marker not found"

None == [tag |-> "None"]
NoReq == [name |-> <<>>, bytes |-> Absent, flavor |-> "stream", pages |-> "all"]

Dot == "."
PdfExt == <<".", "p", "d", "f">>
ReportPdf == <<"r">> \o PdfExt

-----------------------------------------------------------------------------
(* Pure helpers *)

RECURSIVE Str(_)
\* str(n) for a non-negative integer: its decimal digits, most significant first.
Str(n) ==
    LET d == <<"0", "1", "2", "3", "4", "5", "6", "7", "8", "9">>[(n % 10) + 1]
    IN  IF n < 10 THEN <<d>> ELSE Str(n \div 10) \o <<d>>

\* Mutants of SheetName: the 0-based index of enumerate used as it is, and the
\* separator between page and index left out.
SheetNameZeroBased(page, i) == <<"Table_P">> \o Str(page) \o <<"_">> \o Str(i - 1)
SheetNameNoSep(page, i) == <<"Table_P">> \o Str(page) \o Str(i)

\* f'Table_P{table.page}_{i + 1}' for the table at 1-based position i.
SheetName(page, i) == <<"Table_P">> \o Str(page) \o <<"_">> \o Str(i)

StartsWith(s, p) == Len(s) >= Len(p) /\ SubSeq(s, 1, Len(p)) = p

RECURSIVE Replace(_, _, _)
\* str.replace(old, new): every non-overlapping occurrence of old, left to right.
Replace(s, old, new) ==
    IF s = <<>> THEN <<>>
    ELSE IF StartsWith(s, old)
         THEN new \o Replace(SubSeq(s, Len(old) + 1, Len(s)), old, new)
         ELSE <<Head(s)>> \o Replace(Tail(s), old, new)

\* file_name=uploaded_file.name.replace(".pdf", f"_{selected_flavor}_extracted.xlsx")
DownloadName(name, flavor) == Replace(name, PdfExt, <<"_", flavor, "_extracted.xlsx">>)

XlsxMime == "application/vnd.openxmlformats-officedocument.spreadsheetml.sheet"

Msg(level, text, arg) == [level |-> level, text |-> text, arg |-> arg]
InfoUsing(flavor, pages) == Msg("info", "Using Camelot with flavor/pages", <<flavor, pages>>)
ErrorReading(e) == Msg("error", "Error reading PDF with Camelot", <<e>>)
WarnGhostscript == Msg("warning", "Please ensure Ghostscript is correctly configured", <<>>)
WarnNoTables == Msg("warning", "No tables were extracted. Try switching the Flavor", <<>>)
SuccessExtracted(n) == Msg("success", "Successfully extracted tables", Str(n))
ErrorNoData == Msg("error", "Extraction process completed, but no data was returned.", <<>>)

-----------------------------------------------------------------------------
(* The extraction library, as far as the program depends on it: a          *)
(* deterministic function of the file content, the page selector and the   *)
(* flavor, which raises or returns a list of tables with .page and .df.    *)

Tab(page, df, ruled) == [page |-> page, df |-> df, ruled |-> ruled]

\* The tables present in each blob, in the order the library reports them.
TablesIn(bytes) ==
    CASE bytes = PdfThree   -> <<Tab(1, "a", TRUE), Tab(1, "b", FALSE), Tab(3, "c", TRUE)>>
      [] bytes = PdfUnruled -> <<Tab(2, "d", FALSE)>>
      [] OTHER              -> <<>>

RECURSIVE Detect(_, _, _)
\* The tables of tabs on the selected pages that the flavor detects: lattice
\* needs ruling lines, stream does not.
Detect(tabs, pages, flavor) ==
    IF tabs = <<>> THEN <<>>
    ELSE LET t == Head(tabs)
             hit == /\ (pages = "all" \/ Str(t.page) = <<pages>>)
                    /\ (flavor = "stream" \/ t.ruled)
         IN  (IF hit THEN <<[page |-> t.page, df |-> t.df]>> ELSE <<>>)
                 \o Detect(Tail(tabs), pages, flavor)

\* camelot.read_pdf(temp_pdf_path, pages=pages, flavor=flavor) on a path whose
\* file holds content (or is Absent).
read_pdf(content, pages, flavor) ==
    IF content = Absent THEN [err |-> FileNotFound, tables |-> <<>>]
    ELSE IF content \in {PdfCorrupt, Truncated}
         THEN [err |-> PdfReadError, tables |-> <<>>]
         ELSE [err |-> NoErr, tables |-> Detect(TablesIn(content), pages, flavor)]

-----------------------------------------------------------------------------
(* The workbook writer *)

\* df.to_excel(writer, sheet_name=name, ...): a new sheet, or, when the writer
\* already holds a sheet of that name, the cells of that sheet written over.
ToExcel(book, name, df) ==
    IF \E k \in 1..Len(book) : book[k].name = name
    THEN [k \in 1..Len(book) |->
             IF book[k].name = name THEN [name |-> name, df |-> df] ELSE book[k]]
    ELSE Append(book, [name |-> name, df |-> df])

RECURSIVE WriteFrom(_, _, _)
\* for i, table in enumerate(tables): ... from 1-based position i on.
WriteFrom(book, tabs, i) ==
    IF i > Len(tabs) THEN book
    ELSE WriteFrom(ToExcel(book, SheetName(tabs[i].page, i), tabs[i].df), tabs, i + 1)

\* The buffer returned: the workbook, rewound to position 0.
ExcelBuffer(tabs) == [tag |-> "BytesIO", book |-> WriteFrom(<<>>, tabs, 1), pos |-> 0]

\* `return None` of the except block, and of the `len(tables) == 0` branch.
FailureReturn == None
EmptyReturn == None

\* Mutant of Truthy: the test inverted.
TruthyInverted(v) == v = None

\* `if excel_data_buffer:` None is falsy, a BytesIO object is truthy.
Truthy(v) == v # None

\* Mutant of WrittenContent: a file already at the path is kept (mode "xb"
\* with the error ignored).
WrittenContentKeepsOld(old, data) == IF old = Absent THEN data ELSE old

\* open(temp_pdf_path, "wb") and f.write(data): the old content is replaced.
WrittenContent(old, data) == data

-----------------------------------------------------------------------------
(* One script run per button press.  pc follows the run through            *)
(* extract_tables_to_excel and the code after the call.                    *)

UploadNames == {ReportPdf}

\* if st.button(...): the run calls extract_tables_to_excel(uploaded_file,
\* flavor=selected_flavor, pages=selected_pages) with the upload and the
\* settings of the moment, here drawn from the given sets; the page of the run
\* before it is cleared.
PressWith(s, names, blobs, flavors, selectors) ==
    /\ pc[s] \in {"idle", "done", "crashed"}
    /\ \E name \in names, bytes \in blobs, flavor \in flavors, pages \in selectors :
          req' = [req EXCEPT ![s] = [name |-> name, bytes |-> bytes,
                                     flavor |-> flavor, pages |-> pages]]
    /\ tables' = [tables EXCEPT ![s] = <<>>]
    /\ err' = [err EXCEPT ![s] = NoErr]
    /\ ret' = [ret EXCEPT ![s] = None]
    /\ outcome' = [outcome EXCEPT ![s] = "running"]
    /\ msgs' = [msgs EXCEPT ![s] = <<>>]
    /\ download' = [download EXCEPT ![s] = None]
    /\ seen' = [seen EXCEPT ![s] = Absent]
    /\ fsBefore' = [fsBefore EXCEPT ![s] = fs]
    /\ pc' = [pc EXCEPT ![s] = "write"]
    /\ UNCHANGED fs

Press(s) == PressWith(s, UploadNames, PdfBlobs, flavor_options, PageSelectors)

\* The uploads of the overlapping sessions.
ConcBlobs == {PdfCorrupt, PdfNoTables, PdfThree}
PressConc(s) == PressWith(s, UploadNames, ConcBlobs, {"stream"}, {"all"})

\* with open(temp_pdf_path, "wb") as f: f.write(pdf_file_buffer.getbuffer())
\* The file is written, or open raises (nothing changes), or write raises after
\* open has truncated the file.
WriteTemp(s) ==
    /\ pc[s] = "write"
    /\ \/ /\ fs' = [fs EXCEPT ![temp_pdf_path] = WrittenContent(@, req[s].bytes)]
          /\ pc' = [pc EXCEPT ![s] = "read"]
          /\ UNCHANGED err
       \/ /\ UNCHANGED fs
          /\ err' = [err EXCEPT ![s] = OSError]
          /\ pc' = [pc EXCEPT ![s] = "except"]
       \/ /\ fs' = [fs EXCEPT ![temp_pdf_path] = Truncated]
          /\ err' = [err EXCEPT ![s] = OSError]
          /\ pc' = [pc EXCEPT ![s] = "except"]
    /\ UNCHANGED <<req, tables, ret, outcome, msgs, download, seen, fsBefore>>

\* st.info(...); tables = camelot.read_pdf(temp_pdf_path, pages=pages, flavor=flavor)
ReadPdf(s) ==
    /\ pc[s] = "read"
    /\ LET r == read_pdf(fs[temp_pdf_path], req[s].pages, req[s].flavor)
       IN  /\ seen' = [seen EXCEPT ![s] = fs[temp_pdf_path]]
           /\ msgs' = [msgs EXCEPT ![s] = Append(@, InfoUsing(req[s].flavor, req[s].pages))]
           /\ IF r.err = NoErr
              THEN /\ tables' = [tables EXCEPT ![s] = r.tables]
                   /\ pc' = [pc EXCEPT ![s] = "finally"]
                   /\ UNCHANGED err
              ELSE /\ err' = [err EXCEPT ![s] = r.err]
                   /\ pc' = [pc EXCEPT ![s] = "except"]
                   /\ UNCHANGED tables
    /\ UNCHANGED <<fs, req, ret, outcome, download, fsBefore>>

\* Mutant of Except: the exception is not handled and leaves the function.
ExceptReraises(s) ==
    /\ pc[s] = "except"
    /\ outcome' = [outcome EXCEPT ![s] = "raised"]
    /\ pc' = [pc EXCEPT ![s] = "crashed"]
    /\ UNCHANGED <<fs, req, tables, err, ret, msgs, download, seen, fsBefore>>

\* except Exception as e: st.error(...{e}); st.warning(...); return None
\* (the return takes effect once the finally block has run).
Except(s) ==
    /\ pc[s] = "except"
    /\ msgs' = [msgs EXCEPT ![s] = @ \o <<ErrorReading(err[s]), WarnGhostscript>>]
    /\ outcome' = [outcome EXCEPT ![s] = "failure"]
    /\ pc' = [pc EXCEPT ![s] = "finally"]
    /\ UNCHANGED <<fs, req, tables, err, ret, download, seen, fsBefore>>

\* finally: if os.path.exists(temp_pdf_path):
FinallyExists(s) ==
    /\ pc[s] = "finally"
    /\ pc' = [pc EXCEPT ![s] = IF fs[temp_pdf_path] # Absent THEN "remove" ELSE "leave"]
    /\ UNCHANGED <<fs, req, tables, err, ret, outcome, msgs, download, seen, fsBefore>>

\* Mutant of Remove: the file is left where it is.
RemoveSkipped(s) ==
    /\ pc[s] = "remove"
    /\ pc' = [pc EXCEPT ![s] = "leave"]
    /\ UNCHANGED <<fs, req, tables, err, ret, outcome, msgs, download, seen, fsBefore>>

\* os.remove(temp_pdf_path): the file is removed; when it is no longer there
\* FileNotFoundError leaves the function uncaught.
Remove(s) ==
    /\ pc[s] = "remove"
    /\ IF fs[temp_pdf_path] # Absent
       THEN /\ fs' = [fs EXCEPT ![temp_pdf_path] = Absent]
            /\ pc' = [pc EXCEPT ![s] = "leave"]
            /\ UNCHANGED <<err, outcome>>
       ELSE /\ err' = [err EXCEPT ![s] = FileNotFound]
            /\ outcome' = [outcome EXCEPT ![s] = "raised"]
            /\ pc' = [pc EXCEPT ![s] = "crashed"]
            /\ UNCHANGED fs
    /\ UNCHANGED <<req, tables, ret, msgs, download, seen, fsBefore>>

\* The end of the finally block: the pending `return None` of the except
\* block returns to the caller, otherwise the function goes on at line 40.
FinallyExit(s) ==
    /\ pc[s] = "leave"
    /\ IF outcome[s] = "failure"
       THEN /\ ret' = [ret EXCEPT ![s] = FailureReturn]
            /\ pc' = [pc EXCEPT ![s] = "ui"]
       ELSE /\ pc' = [pc EXCEPT ![s] = "check"]
            /\ UNCHANGED ret
    /\ UNCHANGED <<fs, req, tables, err, outcome, msgs, download, seen, fsBefore>>

\* Mutant of CheckEmpty: no test for an empty list.
CheckEmptyMissing(s) ==
    /\ pc[s] = "check"
    /\ msgs' = [msgs EXCEPT ![s] = Append(@, SuccessExtracted(Len(tables[s])))]
    /\ pc' = [pc EXCEPT ![s] = "assemble"]
    /\ UNCHANGED <<fs, req, tables, err, ret, outcome, download, seen, fsBefore>>

\* if len(tables) == 0: st.warning(...); return None
\* st.success(...)
CheckEmpty(s) ==
    /\ pc[s] = "check"
    /\ IF Len(tables[s]) = 0
       THEN /\ msgs' = [msgs EXCEPT ![s] = Append(@, WarnNoTables)]
            /\ outcome' = [outcome EXCEPT ![s] = "empty"]
            /\ ret' = [ret EXCEPT ![s] = EmptyReturn]
            /\ pc' = [pc EXCEPT ![s] = "ui"]
       ELSE /\ msgs' = [msgs EXCEPT ![s] = Append(@, SuccessExtracted(Len(tables[s])))]
            /\ pc' = [pc EXCEPT ![s] = "assemble"]
            /\ UNCHANGED <<outcome, ret>>
    /\ UNCHANGED <<fs, req, tables, err, download, seen, fsBefore>>

\* excel_buffer = io.BytesIO(); the sheet loop; excel_buffer.seek(0); return
Assemble(s) ==
    /\ pc[s] = "assemble"
    /\ ret' = [ret EXCEPT ![s] = ExcelBuffer(tables[s])]
    /\ outcome' = [outcome EXCEPT ![s] = "ok"]
    /\ pc' = [pc EXCEPT ![s] = "ui"]
    /\ UNCHANGED <<fs, req, tables, err, msgs, download, seen, fsBefore>>

\* if excel_data_buffer: st.download_button(...) else: st.error(...)
Ui(s) ==
    /\ pc[s] = "ui"
    /\ IF Truthy(ret[s])
       THEN /\ download' = [download EXCEPT ![s] =
                   [tag |-> "download_button", data |-> ret[s],
                    file_name |-> DownloadName(req[s].name, req[s].flavor),
                    mime |-> XlsxMime]]
            /\ UNCHANGED msgs
       ELSE /\ msgs' = [msgs EXCEPT ![s] = Append(@, ErrorNoData)]
            /\ UNCHANGED download
    /\ pc' = [pc EXCEPT ![s] = "done"]
    /\ UNCHANGED <<fs, req, tables, err, ret, outcome, seen, fsBefore>>

-----------------------------------------------------------------------------
(* Specifications *)

\* Files that may lie at the temporary path before the first call.
StaleContents == {Absent, PdfThree}

InitFs == {[p \in Paths |-> IF p = temp_pdf_path THEN c ELSE "streamlit camelot-py"] :
              c \in StaleContents}

\* The page as loaded in each session of S, before any button press.
InitSessions(S) ==
    /\ fs \in InitFs
    /\ pc = [s \in S |-> "idle"]
    /\ req = [s \in S |-> NoReq]
    /\ tables = [s \in S |-> <<>>]
    /\ err = [s \in S |-> NoErr]
    /\ ret = [s \in S |-> None]
    /\ outcome = [s \in S |-> "running"]
    /\ msgs = [s \in S |-> <<>>]
    /\ download = [s \in S |-> None]
    /\ seen = [s \in S |-> Absent]
    /\ fsBefore = [s \in S |-> fs]

Run ==
    \/ \E s \in DOMAIN pc : WriteTemp(s)
    \/ \E s \in DOMAIN pc : ReadPdf(s)
    \/ \E s \in DOMAIN pc : Except(s)
    \/ \E s \in DOMAIN pc : FinallyExists(s)
    \/ \E s \in DOMAIN pc : Remove(s)
    \/ \E s \in DOMAIN pc : FinallyExit(s)
    \/ \E s \in DOMAIN pc : CheckEmpty(s)
    \/ \E s \in DOMAIN pc : Assemble(s)
    \/ \E s \in DOMAIN pc : Ui(s)

Next == (\E s \in DOMAIN pc : Press(s)) \/ Run

NextConc == (\E s \in DOMAIN pc : PressConc(s)) \/ Run

\* One session: the requests of one user, one after the other.
Init == InitSessions({1})
Spec == Init /\ [][Next]_vars

\* Two sessions whose script runs overlap.
InitConc == InitSessions({1, 2})
SpecConc == InitConc /\ [][NextConc]_vars

\* The sheet loop on its own: the call has reached line 47 with a list of
\* tables of any length up to MaxTables, on pages 1 and 11.
PdfMany == "pdf_many_tables"
SheetTabs == {[page |-> 1, df |-> "a"], [page |-> 11, df |-> "b"]}
TableLists == UNION {[1..n -> SheetTabs] : n \in 1..MaxTables}

InitSheets ==
    /\ fs = [p \in Paths |-> IF p = temp_pdf_path THEN Absent ELSE "streamlit camelot-py"]
    /\ pc = [s \in {1} |-> "assemble"]
    /\ req = [s \in {1} |-> [name |-> ReportPdf, bytes |-> PdfMany,
                             flavor |-> "stream", pages |-> "all"]]
    /\ tables \in [{1} -> TableLists]
    /\ err = [s \in {1} |-> NoErr]
    /\ ret = [s \in {1} |-> None]
    /\ outcome = [s \in {1} |-> "running"]
    /\ msgs = [s \in {1} |-> <<InfoUsing("stream", "all"), SuccessExtracted(Len(tables[s]))>>]
    /\ download = [s \in {1} |-> None]
    /\ seen = [s \in {1} |-> PdfMany]
    /\ fsBefore = [s \in {1} |-> fs]

NextSheets == (\E s \in DOMAIN pc : Assemble(s)) \/ (\E s \in DOMAIN pc : Ui(s))

SpecSheets == InitSheets /\ [][NextSheets]_vars

\* The download name on its own: the call has returned a workbook for an
\* upload of any name the uploader (type="pdf") lets through.
NameParts == {<<"a">>, <<Dot>>, PdfExt}

RECURSIVE Flatten(_)
Flatten(parts) == IF parts = <<>> THEN <<>> ELSE Head(parts) \o Flatten(Tail(parts))

PdfNames == {Flatten(ps) \o PdfExt : ps \in UNION {[1..n -> NameParts] : n \in 0..MaxNameParts}}

InitName ==
    /\ fs = [p \in Paths |-> IF p = temp_pdf_path THEN Absent ELSE "streamlit camelot-py"]
    /\ pc = [s \in {1} |-> "ui"]
    /\ req \in [{1} -> {[name |-> n, bytes |-> PdfUnruled, flavor |-> f, pages |-> "all"] :
                           n \in PdfNames, f \in flavor_options}]
    /\ tables = [s \in {1} |-> read_pdf(PdfUnruled, "all", "stream").tables]
    /\ err = [s \in {1} |-> NoErr]
    /\ ret = [s \in {1} |-> IF req[s].flavor = "stream" THEN ExcelBuffer(tables[s]) ELSE EmptyReturn]
    /\ outcome = [s \in {1} |-> IF req[s].flavor = "stream" THEN "ok" ELSE "empty"]
    /\ msgs = [s \in {1} |-> <<InfoUsing(req[s].flavor, "all"),
                               IF req[s].flavor = "stream"
                               THEN SuccessExtracted(1) ELSE WarnNoTables>>]
    /\ download = [s \in {1} |-> None]
    /\ seen = [s \in {1} |-> PdfUnruled]
    /\ fsBefore = [s \in {1} |-> fs]

NextName == \E s \in DOMAIN pc : Ui(s)

SpecName == InitName /\ [][NextName]_vars

-----------------------------------------------------------------------------
(* Properties *)

Shown(s, m) == \E k \in 1..Len(msgs[s]) : msgs[s][k] = m
Returned(s) == pc[s] \in {"ui", "done"}
Left(s) == pc[s] \in {"ui", "done", "crashed"}
EndsWith(str, suffix) ==
    Len(str) >= Len(suffix) /\ SubSeq(str, Len(str) - Len(suffix) + 1, Len(str)) = suffix

\* C1: once a call of extract_tables_to_excel has ended, whichever way (a
\* workbook returned, no tables, an error in the try block), there is no file at
\* the temporary path.
C1_NoTransientFileAfterCall ==
    \A s \in DOMAIN pc : Left(s) => fs[temp_pdf_path] = Absent

\* A call that wrote the file, had the library fail on it, and returned.
C1_Witness ==
    \E s \in DOMAIN pc :
        /\ pc[s] = "ui"
        /\ outcome[s] = "failure"
        /\ seen[s] = PdfCorrupt
        /\ fs[temp_pdf_path] = Absent

\* C2: when two calls overlap, the extraction call of each reads the bytes that
\* same call wrote.
C2_ReadsOwnBytes ==
    \A s \in DOMAIN pc :
        (pc[s] \notin {"idle", "write", "read"} /\ err[s] # OSError)
            => seen[s] = req[s].bytes

\* C2's case: a call that read, as its own upload, bytes another session wrote.
C2_Overlap ==
    \E s \in DOMAIN pc, t \in DOMAIN pc :
        /\ s # t
        /\ pc[s] = "finally"
        /\ seen[s] = req[t].bytes
        /\ seen[s] # req[s].bytes

DigitChars == <<"0", "1", "2", "3", "4", "5", "6", "7", "8", "9">>
IsDigit(c) == \E k \in 1..10 : DigitChars[k] = c
DigitVal(c) == (CHOOSE k \in 1..10 : DigitChars[k] = c) - 1

RECURSIVE Value(_)
\* The number a sequence of decimal digits stands for.
Value(ds) ==
    IF ds = <<>> THEN 0
    ELSE 10 * Value(SubSeq(ds, 1, Len(ds) - 1)) + DigitVal(ds[Len(ds)])

\* ds is the decimal numeral of n, without leading zeros.
IsNumeral(ds, n) ==
    /\ Len(ds) >= 1
    /\ \A k \in 1..Len(ds) : IsDigit(ds[k])
    /\ (Len(ds) > 1 => ds[1] # "0")
    /\ Value(ds) = n

\* name reads Table_P<page>_<i>.
IsSheetNameOf(name, page, i) ==
    \E k \in 3..(Len(name) - 1) :
        /\ name[1] = "Table_P"
        /\ name[k] = "_"
        /\ IsNumeral(SubSeq(name, 2, k - 1), page)
        /\ IsNumeral(SubSeq(name, k + 1, Len(name)), i)

\* C3: a call that got N >= 1 tables returns a workbook of exactly N sheets, the
\* i-th named Table_P<page>_<i> for the page of the i-th table returned and
\* holding that table's cells.
C3_OneSheetPerTableInOrder ==
    \A s \in DOMAIN pc :
        (Returned(s) /\ outcome[s] = "ok") =>
            /\ Len(tables[s]) >= 1
            /\ Len(ret[s].book) = Len(tables[s])
            /\ \A i \in 1..Len(tables[s]) :
                  /\ IsSheetNameOf(ret[s].book[i].name, tables[s][i].page, i)
                  /\ ret[s].book[i].df = tables[s][i].df

\* Tables on pages 1, 1, 11 written as Table_P1_1, Table_P1_2, Table_P11_3.
C3_Witness ==
    \E s \in DOMAIN pc :
        /\ Returned(s)
        /\ outcome[s] = "ok"
        /\ Len(tables[s]) = 3
        /\ ret[s].book[1].name = <<"Table_P", "1", "_", "1">>
        /\ ret[s].book[2].name = <<"Table_P", "1", "_", "2">>
        /\ ret[s].book[3].name = <<"Table_P", "1", "1", "_", "3">>

\* C4: in one workbook no two table positions get the same sheet name, so no
\* two sheets of the workbook share a name and no sheet is written twice.
C4_SheetNamesInjective ==
    \A s \in DOMAIN pc :
        (Returned(s) /\ outcome[s] = "ok") =>
            /\ \A i, j \in 1..Len(tables[s]) :
                  i # j => SheetName(tables[s][i].page, i) # SheetName(tables[s][j].page, j)
            /\ \A i, j \in 1..Len(ret[s].book) :
                  i # j => ret[s].book[i].name # ret[s].book[j].name
            /\ Len(ret[s].book) = Len(tables[s])

\* Page 11 at index 1 and page 1 at index 11, and two tables on one page.
C4_Witness ==
    \E s \in DOMAIN pc :
        /\ Returned(s)
        /\ outcome[s] = "ok"
        /\ Len(tables[s]) = 11
        /\ tables[s][1].page = 11
        /\ tables[s][11].page = 1
        /\ tables[s][2].page = tables[s][3].page

\* C5 as amended: when the extraction call returns no tables the sheet loop is
\* not entered, no workbook and no download are produced, and the user is shown
\* the "No tables were extracted" warning, which the failure path never shows
\* (and which never comes with the "Error reading PDF" message); the value
\* returned to the caller is None, the same as on failure.
C5_EmptyResultWarnedNoWorkbook ==
    \A s \in DOMAIN pc :
        /\ pc[s] = "assemble" => Len(tables[s]) >= 1
        /\ (Returned(s) /\ err[s] = NoErr /\ Len(tables[s]) = 0) =>
              /\ outcome[s] = "empty"
              /\ ret[s] = None
              /\ download[s] = None
              /\ Shown(s, WarnNoTables)
              /\ \A k \in 1..Len(msgs[s]) : msgs[s][k].text # ErrorReading(NoErr).text
        /\ (Returned(s) /\ outcome[s] = "failure") =>
              /\ ~Shown(s, WarnNoTables)
              /\ ret[s] = None

\* A PDF whose only table has no ruling lines, read with the lattice flavor.
C5_Witness ==
    \E s \in DOMAIN pc :
        /\ pc[s] = "done"
        /\ outcome[s] = "empty"
        /\ req[s].bytes = PdfUnruled
        /\ req[s].flavor = "lattice"
        /\ seen[s] = PdfUnruled

\* C5 as claimed: the caller of extract_tables_to_excel can tell the empty
\* result from the failure by what the call returns.
C5_CallerDistinguishes ==
    \A s \in DOMAIN pc :
        (Returned(s) /\ err[s] = NoErr /\ Len(tables[s]) = 0) =>
            /\ outcome[s] = "empty"
            /\ download[s] = None
            /\ ret[s].tag # "BytesIO"
            /\ ret[s] # FailureReturn

\* C6: when writing the temporary file or the extraction call raises, the
\* error message with the exception's text is shown, the call returns None, the
\* code after the try block (the empty test, the sheet loop) is not entered, no
\* download is offered, and the exception does not leave the function.
C6_FailureReportedNoOutput ==
    \A s \in DOMAIN pc :
        err[s] # NoErr =>
            /\ pc[s] \in {"except", "finally", "remove", "leave", "ui", "done"}
            /\ download[s] = None
            /\ ret[s] = None
            /\ Returned(s) =>
                  /\ outcome[s] = "failure"
                  /\ Shown(s, ErrorReading(err[s]))

\* A request whose write to the temporary file raised, at its end.
C6_Witness ==
    \E s \in DOMAIN pc :
        /\ pc[s] = "done"
        /\ err[s] = OSError
        /\ Shown(s, ErrorReading(OSError))

\* C7: at the end of a request the download button is shown exactly when the
\* call returned a workbook, the "no data was returned" message exactly when it
\* did not, and before the end of the request no download button is shown.
C7_DownloadIffWorkbook ==
    \A s \in DOMAIN pc :
        /\ pc[s] = "done" =>
              /\ (download[s] # None) <=> (outcome[s] = "ok" /\ ret[s] # None)
              /\ (download[s] = None) <=> Shown(s, ErrorNoData)
              /\ download[s] # None => download[s].data = ret[s]
        /\ pc[s] # "done" => (download[s] = None /\ ~Shown(s, ErrorNoData))

\* A request that ended with the download button for a three-sheet workbook.
C7_Witness ==
    \E s \in DOMAIN pc :
        /\ pc[s] = "done"
        /\ download[s] # None
        /\ Len(download[s].data.book) = 3
        /\ ~Shown(s, ErrorNoData)

\* C8: for a name ending in .pdf the download name is the name without that
\* final .pdf, followed by _<strategy>_extracted.xlsx.
C8_OnlySuffixReplaced ==
    \A s \in DOMAIN pc :
        (pc[s] = "done" /\ download[s] # None /\ EndsWith(req[s].name, PdfExt)) =>
            download[s].file_name =
                SubSeq(req[s].name, 1, Len(req[s].name) - Len(PdfExt))
                    \o <<"_", req[s].flavor, "_extracted.xlsx">>

\* What a request is to give, from its own inputs alone.
Expected(r) ==
    LET x == read_pdf(r.bytes, r.pages, r.flavor)
    IN  IF x.err # NoErr THEN [kind |-> "failure", sheets |-> <<>>]
        ELSE IF x.tables = <<>> THEN [kind |-> "empty", sheets |-> <<>>]
        ELSE [kind |-> "ok", sheets |-> WriteFrom(<<>>, x.tables, 1)]

Given(s) ==
    [kind |-> outcome[s], sheets |-> IF ret[s] = None THEN <<>> ELSE ret[s].book]

\* C9: the result of a request (failure, empty, or the sheets with their names
\* and cells) is the one its own bytes, flavor and page selector determine,
\* whatever file lay at the temporary path and whatever requests ran before; a
\* request whose write to the temporary file raised ends as a failure.
C9_ResultFromOwnInputs ==
    \A s \in DOMAIN pc :
        pc[s] = "done" =>
            /\ err[s] = OSError => Given(s).kind = "failure"
            /\ err[s] # OSError => Given(s) = Expected(req[s])
            /\ download[s] # None => download[s].data.book = Given(s).sheets

\* A request for a PDF without tables, made while a three-table file lay at
\* the temporary path, that ended as empty.
C9_Witness ==
    \E s \in DOMAIN pc :
        /\ pc[s] = "done"
        /\ fsBefore[s][temp_pdf_path] = PdfThree
        /\ req[s].bytes = PdfNoTables
        /\ outcome[s] = "empty"

\* C10: the files and their contents after a call are those before the call.
C10_FilesAsBefore ==
    \A s \in DOMAIN pc : Returned(s) => fs = fsBefore[s]

====
